---- MODULE Spec2Model ----
(***************************************************************************)
(* A model of grond's solver telemetry (src/solvers/base.py), of the       *)
(* command line and the go, harvest, forward and qc-polarization commands  *)
(* (src/apps/grond.py), of the satellite target group and misfit target    *)
(* (src/targets/satellite/target.py, src/targets/base.py), and of the plot *)
(* collection manager (src/plot/collection.py).                            *)
(*                                                                         *)
(* The components share no state.  Each has a specification of its own,    *)
(* which starts from the inputs of that component and leaves the variables *)
(* of the others at rest.                                                  *)
(*                                                                         *)
(* Python floats are modelled as exact rationals [num, den] in lowest      *)
(* terms; rounding is not modelled.  Python ints are integers.             *)
(***************************************************************************)
EXTENDS Integers, Sequences, FiniteSets, TLC

VARIABLES
    \* ---- a stand-alone RingBuffer (src/solvers/base.py:13-22)
    rb,               \* the buffer object: [data, pos]
    rb_puts,          \* history: every value put so far, oldest first
    \* ---- SolverState / Solver (src/solvers/base.py:25-69)
    now,              \* the value time.time() returns
    alive,            \* the SolverState instances constructed so far
    constructed_at,   \* history: the time each instance was constructed
    starttime,        \* class attribute SolverState.starttime
    _iter_buffer,     \* class attribute SolverState._iter_buffer (one object)
    _iiter,           \* attribute _iiter as read through each instance
    iter_per_second,  \* attribute iter_per_second as read through each instance
    _last_update,     \* attribute _last_update as read through each instance
    niter,            \* attribute niter as read through each instance
    nsets,            \* number of iiter assignments made so far
    ret,              \* the last operation and what it returned or raised
    \* ---- the go command (src/apps/grond.py:566-607)
    rundir,           \* the run directory: 0 when empty, else the run that wrote it
    preserved,        \* the old run directories renamed aside
    ngo,              \* number of go commands run so far
    conflicts,        \* history: go commands in a row that ended in a conflict
    cmd,              \* the last go command: options, arguments passed, outcome
    \* ---- SatelliteTargetGroup (src/targets/satellite/target.py:24-66)
    targets,          \* the list the last get_targets() returned
    tcall,            \* the last get_targets() call: its inputs and outcome
    \* ---- building the targets of a problem from its target groups
    groups,           \* the configured target groups, in order
    build,            \* the last build: its dataset and outcome
    \* ---- SatelliteMisfitTarget.target_ranges (target.py:93-100)
    target_id,        \* the id of the target (self.id)
    ranges,           \* misfit_config.ranges: a dict from names to ranges
    _target_ranges,   \* attribute _target_ranges: None, or a dict
    rread,            \* the last read of target_ranges and its outcome
    \* ---- SatelliteMisfitTarget.post_process (target.py:110-141)
    scene,            \* the kite scene of the target: its quadtree leaves
    optimize_orbital_ramp,   \* misfit_config.optimize_orbital_ramp
    parameter_values, \* attribute parameter_values of the target
    _result_mode,     \* attribute _result_mode of the target
    statics,          \* the caller's forward-model output, 'displacement.los'
    ncalls,           \* number of post_process calls made so far
    pret,             \* the last post_process call and what it returned
    \* ---- get_combined_weight (base.py:116-117, target.py:143-144)
    target_class,     \* the class of the target
    manual_weight,    \* attribute manual_weight of the target
    wret,             \* the last get_combined_weight call and its outcome
    \* ---- the harvest command (src/apps/grond.py:629-660)
    chains,           \* the chains of a finished run: the global chain first
    harvest_dir,      \* the harvest directory: None, or the ensemble in it
    hv,               \* the last harvest command: options, arguments, outcome
    \* ---- the forward command (src/apps/grond.py:610-626)
    fwd,              \* the last forward command: arguments and outcome
    \* ---- a directory of plots and its managers (src/plot/collection.py:47-125)
    manifest,         \* plot_collection.yaml on disk: [exists, group_refs]
    pfiles,           \* the other files of the directory: path -> [kind, by]
    _collection,      \* per manager: the PlotCollection in memory
    ppc,              \* per manager: closed, idle, or the step create_group_mpl is at
    pcur,             \* per manager: the group create_group_mpl is building
    ncreate,          \* number of create_group_mpl calls started so far
    plast,            \* history: per group reference, the last call that completed
    pcreated,         \* history: per manager, the references it completed
    punlinked,        \* history: the paths remove_group_files has unlinked
    \* ---- the grond command line (src/apps/grond.py:149-172)
    mrun,             \* the last run of main: argv, handler called, exit or exception
    \* ---- one qc-polarization command (src/apps/grond.py:951-1065)
    qc_in,            \* its inputs: arguments, configuration, picks
    qc,               \* its outcome: polarization run for a group, or the exit message
    \* ---- the free parameters of two misfit targets (src/targets/base.py:88-100)
    available_parameters, \* the class-level parameter list
    ptarget,          \* per target: scene id, path, what self.parameters refers to
    _target_parameters, \* per target: None or the namespaced copy
    pread             \* the last property read: target, property, value

vars == <<rb, rb_puts, now, alive, constructed_at, starttime, _iter_buffer,
          _iiter, iter_per_second, _last_update, niter, nsets, ret,
          rundir, preserved, ngo, conflicts, cmd, targets, tcall,
          groups, build, target_id, ranges, _target_ranges, rread,
          scene, optimize_orbital_ramp, parameter_values, _result_mode,
          statics, ncalls, pret, target_class, manual_weight, wret,
          chains, harvest_dir, hv, fwd,
          manifest, pfiles, _collection, ppc, pcur, ncreate, plast, pcreated, punlinked,
          mrun,
          qc_in, qc,
          available_parameters, ptarget, _target_parameters, pread>>

varsRingBuffer == <<rb, rb_puts>>

varsSolverState == <<now, alive, constructed_at, starttime, _iter_buffer,
                     _iiter, iter_per_second, _last_update, niter, nsets, ret>>

varsGo == <<rundir, preserved, ngo, conflicts, cmd>>

varsTargets == <<targets, tcall>>

varsBuild == <<groups, build>>

varsRanges == <<target_id, ranges, _target_ranges, rread>>

varsPostProcess == <<scene, optimize_orbital_ramp, parameter_values,
                     _result_mode, statics, ncalls, pret>>

varsWeight == <<target_class, manual_weight, wret>>

varsHarvest == <<chains, harvest_dir, hv>>

varsForward == <<fwd>>

varsPlot == <<manifest, pfiles, _collection, ppc, pcur, ncreate, plast, pcreated, punlinked>>

varsMain == <<mrun>>

varsQc == <<qc_in, qc>>

varsParams == <<available_parameters, ptarget, _target_parameters, pread>>

\* what the operations of one component leave alone
notRingBuffer == <<varsSolverState, varsGo, varsTargets, varsBuild,
    varsRanges, varsPostProcess,
    varsWeight, varsHarvest,
    varsForward,
    varsPlot,
    varsMain,
    varsQc,
    varsParams>>

notSolverState == <<varsRingBuffer, varsGo, varsTargets, varsBuild,
    varsRanges, varsPostProcess,
    varsWeight, varsHarvest,
    varsForward,
    varsPlot,
    varsMain,
    varsQc,
    varsParams>>

notGo == <<varsRingBuffer, varsSolverState, varsTargets, varsBuild,
    varsRanges, varsPostProcess,
    varsWeight, varsHarvest,
    varsForward,
    varsPlot,
    varsMain,
    varsQc,
    varsParams>>

notTargets == <<varsRingBuffer, varsSolverState, varsGo, varsBuild,
    varsRanges, varsPostProcess,
    varsWeight, varsHarvest,
    varsForward,
    varsPlot,
    varsMain,
    varsQc,
    varsParams>>

notBuild == <<varsRingBuffer, varsSolverState, varsGo, varsTargets,
    varsRanges, varsPostProcess,
    varsWeight, varsHarvest,
    varsForward,
    varsPlot,
    varsMain,
    varsQc,
    varsParams>>

notRanges == <<varsRingBuffer, varsSolverState, varsGo, varsTargets,
    varsBuild, varsPostProcess,
    varsWeight, varsHarvest,
    varsForward,
    varsPlot,
    varsMain,
    varsQc,
    varsParams>>

notPostProcess == <<varsRingBuffer, varsSolverState, varsGo, varsTargets,
    varsBuild, varsRanges,
    varsWeight, varsHarvest,
    varsForward,
    varsPlot,
    varsMain,
    varsQc,
    varsParams>>

notWeight == <<varsRingBuffer, varsSolverState, varsGo, varsTargets,
    varsBuild, varsRanges, varsPostProcess, varsHarvest,
    varsForward,
    varsPlot,
    varsMain,
    varsQc,
    varsParams>>

notHarvest == <<varsRingBuffer, varsSolverState, varsGo, varsTargets,
    varsBuild, varsRanges, varsPostProcess, varsWeight,
    varsForward,
    varsPlot,
    varsMain,
    varsQc,
    varsParams>>

notForward == <<varsRingBuffer, varsSolverState, varsGo, varsTargets,
    varsBuild, varsRanges, varsPostProcess, varsWeight, varsHarvest,
    varsPlot,
    varsMain,
    varsQc,
    varsParams>>

notPlot == <<varsRingBuffer, varsSolverState, varsGo, varsTargets,
    varsBuild, varsRanges, varsPostProcess, varsWeight, varsHarvest, varsForward,
    varsMain,
    varsQc,
    varsParams>>

notMain == <<varsRingBuffer, varsSolverState, varsGo, varsTargets,
    varsBuild, varsRanges, varsPostProcess, varsWeight, varsHarvest, varsForward, varsPlot,
    varsQc,
    varsParams>>

notQc == <<varsRingBuffer, varsSolverState, varsGo, varsTargets,
    varsBuild, varsRanges, varsPostProcess, varsWeight, varsHarvest, varsForward, varsPlot, varsMain,
    varsParams>>

notParams == <<varsRingBuffer, varsSolverState, varsGo, varsTargets,
    varsBuild, varsRanges, varsPostProcess, varsWeight, varsHarvest, varsForward, varsPlot, varsMain, varsQc>>

----------------------------------------------------------------------------
(* Bounds of the model.                                                    *)

\* capacity of the stand-alone RingBuffer
BufCap == 3

\* number of put() calls on the stand-alone RingBuffer
MaxPuts == 5

\* the clock runs from 0 to MaxTime
MaxTime == 2

\* number of completed iiter assignments
MaxSets == 3

\* number of post_process calls on one target
MaxCalls == 2

\* number of arguments on the command line of forward
MaxArgs == 3

\* number of create_group_mpl calls in one directory
MaxCreates == 2

\* number of target groups in a configuration
MaxTargetGroups == 3

\* number of go commands
MaxGo == 3

\* number of kite scenes in a dataset
MaxScenes == 2

----------------------------------------------------------------------------
(* Program constants.                                                      *)

\* _iter_buffer = RingBuffer(20)
RateSlots == 20

----------------------------------------------------------------------------
(* Floats as rationals.                                                    *)

Abs(i) == IF i < 0 THEN 0 - i ELSE i

RECURSIVE GCD(_, _)
GCD(a, b) == IF b = 0 THEN a ELSE GCD(b, a % b)

\* the rational n/d, d # 0, in lowest terms with a positive denominator
Rat(n, d) ==
    LET s == IF d < 0 THEN 0 - 1 ELSE 1
        g == GCD(Abs(n), Abs(d))
    IN  [num |-> (s * n) \div g, den |-> (s * d) \div g]

Zero == [num |-> 0, den |-> 1]

ToRat(i) == [num |-> i, den |-> 1]

RatAdd(a, b) == Rat(a.num * b.den + b.num * a.den, a.den * b.den)

RatMul(a, b) == Rat(a.num * b.num, a.den * b.den)

\* a / b for b # 0
RatDiv(a, b) == Rat(a.num * b.den, a.den * b.num)

RECURSIVE SeqSum(_)
SeqSum(s) == IF s = <<>> THEN Zero ELSE RatAdd(Head(s), SeqSum(Tail(s)))

----------------------------------------------------------------------------
(* RingBuffer.                                                             *)

\* RingBuffer(n): an n-slot array filled with 0., write cursor at 0
RingBuffer(n) == [data |-> [i \in 1..n |-> Zero], pos |-> 0]

\* a put() whose cursor is not wrapped: it stays on the last slot
put_nowrap(b, value) ==
    [data |-> [b.data EXCEPT ![b.pos + 1] = value],
     pos  |-> IF b.pos + 1 < Len(b.data) THEN b.pos + 1 ELSE b.pos]

\* put(value): self[self.pos] = value; self.pos += 1; self.pos %= self.size
put(b, value) ==
    [data |-> [b.data EXCEPT ![b.pos + 1] = value],
     pos  |-> (b.pos + 1) % Len(b.data)]

\* ndarray.mean(): the sum of all slots over the number of slots
mean(b) == RatDiv(SeqSum(b.data), ToRat(Len(b.data)))

\* the values put() is called with on the stand-alone buffer
RbValues == {Rat(0 - 1, 1), Zero, Rat(1, 2), Rat(2, 1)}

InitRingBuffer ==
    /\ rb = RingBuffer(BufCap)
    /\ rb_puts = <<>>

RbPut(value) ==
    /\ Len(rb_puts) < MaxPuts
    /\ rb' = put(rb, value)
    /\ rb_puts' = Append(rb_puts, value)
    /\ UNCHANGED notRingBuffer

NextRingBuffer == \E value \in RbValues : RbPut(value)

----------------------------------------------------------------------------
(* SolverState.                                                            *)

\* the iteration counts assigned to iiter and niter
IterValues == {0, 1, 2}

\* the SolverState instances: Solver.state, and one constructed later
StateIds == {"Solver.state", "s1"}

\* two Solver instances, and the holder of the separately constructed state
Solvers == {"solverA", "solverB"}

Holders == Solvers \cup {"s1"}

\* Solver.state = SolverState(): a class attribute, the same object for
\* every Solver instance
Solver_state(solver) == "Solver.state"

\* the SolverState a holder reaches: self.state of a Solver, or the instance
StateOf(o) == IF o \in Solvers THEN Solver_state(o) ELSE o

\* self._iter_buffer: never assigned on an instance, so every instance
\* reads the class attribute, the one RingBuffer(20) object
IterBufferOf(s) == _iter_buffer

\* self.starttime: never assigned on an instance, so every instance reads
\* the class attribute, evaluated once when the class body ran
StarttimeOf(s) == starttime

\* the outcome of an expression: a float, or the exception it raised
Ok(x) == [raised |-> "none", value |-> x]

Raise(exc) == [raised |-> exc, value |-> Zero]

\* Python's a / b on numbers
TrueDiv(a, b) == IF b = Zero THEN Raise("ZeroDivisionError") ELSE Ok(RatDiv(a, b))

\* a rate sample that forgets the previous iteration count
rate_sample_abs(value, prev, dt) == TrueDiv(ToRat(value), ToRat(dt))

\* (value - self._iiter) / dt
rate_sample(value, prev, dt) == TrueDiv(ToRat(value - prev), ToRat(dt))

\* an assignment that never lowers the stored count
assigned_iiter_max(value, prev) == IF value > prev THEN value ELSE prev

\* self._iiter = value: the value is stored as given
assigned_iiter(value, prev) == value

\* property iiter (getter)
iiter(s) == _iiter[s]

\* property runtime: time.time() - self.starttime
runtime(s) == ToRat(now - StarttimeOf(s))

\* runtime_remaining without its test for a zero rate
runtime_remaining_unguarded(s) ==
    TrueDiv(ToRat(niter[s] - iiter(s)), iter_per_second[s])

\* property runtime_remaining
runtime_remaining(s) ==
    IF iter_per_second[s] = Zero
    THEN Ok(Zero)
    ELSE TrueDiv(ToRat(niter[s] - iiter(s)), iter_per_second[s])

Returned(op, via, value, dt, out) ==
    [op |-> op, via |-> via, value |-> value, dt |-> dt,
     result |-> out.value, raised |-> out.raised]

\* the class bodies of SolverState and Solver have run at time 0:
\* the class attributes hold their defaults and Solver.state exists
InitSolverState ==
    /\ now = 0
    /\ alive = {"Solver.state"}
    /\ constructed_at = [s \in {"Solver.state"} |-> 0]
    /\ starttime = 0
    /\ _iter_buffer = RingBuffer(RateSlots)
    /\ _iiter = [s \in StateIds |-> 0]
    /\ iter_per_second = [s \in StateIds |-> Zero]
    /\ _last_update = [s \in StateIds |-> 0]
    /\ niter = [s \in StateIds |-> 0]
    /\ nsets = 0
    /\ ret = Returned("import", "", 0, 0, Ok(Zero))

\* time passes between two operations
Tick ==
    /\ now < MaxTime
    /\ now' = now + 1
    /\ ret' = Returned("tick", "", 0, 0, Ok(Zero))
    /\ UNCHANGED <<alive, constructed_at, starttime, _iter_buffer, _iiter,
                   iter_per_second, _last_update, niter, nsets>>
    /\ UNCHANGED notSolverState

\* s = SolverState(): the class has no __init__, nothing is assigned
Construct(s) ==
    /\ s \notin alive
    /\ alive' = alive \cup {s}
    /\ constructed_at' = [x \in alive \cup {s} |->
                            IF x = s THEN now ELSE constructed_at[x]]
    /\ ret' = Returned("SolverState()", "", 0, 0, Ok(Zero))
    /\ UNCHANGED <<now, starttime, _iter_buffer, _iiter, iter_per_second,
                   _last_update, niter, nsets>>
    /\ UNCHANGED notSolverState

\* state.niter = n
SetNiter(s, n) ==
    /\ s \in alive
    /\ niter' = [niter EXCEPT ![s] = n]
    /\ ret' = Returned("niter=", "", 0, 0, Ok(Zero))
    /\ UNCHANGED <<now, alive, constructed_at, starttime, _iter_buffer,
                   _iiter, iter_per_second, _last_update, nsets>>
    /\ UNCHANGED notSolverState

\* state.iiter = value.  The clock is read twice, before the rate sample is
\* computed and after the new count is stored; it may advance in between.
SetIiter(o, value, drift) ==
    LET s      == StateOf(o)
        dt     == now - _last_update[s]
        sample == rate_sample(value, _iiter[s], dt)
        buf    == put(IterBufferOf(s), sample.value)
    IN  /\ s \in alive
        /\ IF sample.raised # "none"
           THEN /\ ret' = Returned("iiter=", o, value, dt, sample)
                /\ UNCHANGED <<now, _iter_buffer, _iiter, iter_per_second,
                               _last_update, nsets>>
           ELSE /\ nsets < MaxSets
                /\ now + drift <= MaxTime
                /\ _iter_buffer' = buf
                /\ iter_per_second' = [iter_per_second EXCEPT ![s] = mean(buf)]
                /\ _iiter' = [_iiter EXCEPT ![s] = assigned_iiter(value, _iiter[s])]
                /\ now' = now + drift
                /\ _last_update' = [_last_update EXCEPT ![s] = now + drift]
                /\ nsets' = nsets + 1
                /\ ret' = Returned("iiter=", o, value, dt, sample)
        /\ UNCHANGED <<alive, constructed_at, starttime, niter>>
        /\ UNCHANGED notSolverState

\* reading state.runtime
ReadRuntime(s) ==
    /\ s \in alive
    /\ ret' = Returned("runtime", s, 0, 0, Ok(runtime(s)))
    /\ UNCHANGED <<now, alive, constructed_at, starttime, _iter_buffer, _iiter,
                   iter_per_second, _last_update, niter, nsets>>
    /\ UNCHANGED notSolverState

\* reading state.runtime_remaining
ReadRuntimeRemaining(s) ==
    /\ s \in alive
    /\ ret' = Returned("runtime_remaining", s, 0, 0, runtime_remaining(s))
    /\ UNCHANGED <<now, alive, constructed_at, starttime, _iter_buffer, _iiter,
                   iter_per_second, _last_update, niter, nsets>>
    /\ UNCHANGED notSolverState

\* several SolverState instances and Solver instances in one process
NextSolverState ==
    \/ Tick
    \/ \E s \in StateIds : Construct(s)
    \/ \E o \in Holders, value \in IterValues, drift \in 0..1 :
            SetIiter(o, value, drift)
    \/ \E s \in StateIds : ReadRuntime(s)

\* one run: one Solver reporting its progress through self.state
NextSingleRun ==
    \/ Tick
    \/ \E n \in IterValues : SetNiter(Solver_state("solverA"), n)
    \/ \E value \in IterValues, drift \in 0..1 :
            SetIiter("solverA", value, drift)
    \/ ReadRuntimeRemaining(Solver_state("solverA"))

----------------------------------------------------------------------------
(* The go command.                                                         *)

\* --status is a choice of these
StatusChoices == {"state", "quiet"}

\* --parallel is any int
ParallelValues == {0 - 1, 0, 1, 2, 3}

\* the options cl_parse returns (a flag that was not given counts as false)
GoOptions ==
    [force : BOOLEAN, preserve : BOOLEAN,
     status : StatusChoices, nparallel : ParallelValues]

\* command_go handing on force=True whatever the options say
go_kwargs_forced(options) ==
    [force     |-> TRUE,
     preserve  |-> options.preserve,
     status    |-> IF options.nparallel # 1 THEN "quiet" ELSE options.status,
     nparallel |-> options.nparallel]

\* command_go silencing the status only for more than one parallel event
go_kwargs_gt1(options) ==
    [force     |-> options.force,
     preserve  |-> options.preserve,
     status    |-> IF options.nparallel > 1 THEN "quiet" ELSE options.status,
     nparallel |-> options.nparallel]

\* the keyword arguments command_go passes to grond.go
go_kwargs(options) ==
    [force     |-> options.force,
     preserve  |-> options.preserve,
     status    |-> IF options.nparallel # 1 THEN "quiet" ELSE options.status,
     nparallel |-> options.nparallel]

\* grond.go on a run directory `dir` (`kept`: the directories renamed aside
\* so far; `run`: what this run writes).  An empty directory is used as it
\* is; an existing one is renamed aside with preserve, cleared with force,
\* and is a ResumeConflictError with neither, the directory left untouched.
\* With both given, either of the two may happen.
grond_go(kwargs, dir, kept, run) ==
    IF dir = 0
    THEN {[raised |-> "none", rundir |-> run, preserved |-> kept]}
    ELSE (IF kwargs.preserve
          THEN {[raised |-> "none", rundir |-> run,
                 preserved |-> kept \cup {dir}]}
          ELSE {})
         \cup
         (IF kwargs.force
          THEN {[raised |-> "none", rundir |-> run, preserved |-> kept]}
          ELSE {})
         \cup
         (IF ~kwargs.force /\ ~kwargs.preserve
          THEN {[raised |-> "ResumeConflictError", rundir |-> dir,
                 preserved |-> kept]}
          ELSE {})

\* the options when none is given: --status state, --parallel 1
GoDefaults ==
    [force |-> FALSE, preserve |-> FALSE, status |-> "state", nparallel |-> 1]

InitGo ==
    /\ rundir = 0
    /\ preserved = {}
    /\ ngo = 0
    /\ conflicts = 0
    /\ cmd = [op |-> "none", options |-> GoDefaults,
              kwargs |-> go_kwargs(GoDefaults), raised |-> "none"]

\* grond go <config> with the given options
command_go(options) ==
    /\ ngo < MaxGo
    /\ \E out \in grond_go(go_kwargs(options), rundir, preserved, ngo + 1) :
          /\ rundir' = out.rundir
          /\ preserved' = out.preserved
          /\ conflicts' = IF out.raised = "ResumeConflictError"
                          THEN conflicts + 1 ELSE 0
          /\ cmd' = [op |-> "go", options |-> options,
                     kwargs |-> go_kwargs(options), raised |-> out.raised]
    /\ ngo' = ngo + 1
    /\ UNCHANGED notGo

NextGo == \E options \in GoOptions : command_go(options)

----------------------------------------------------------------------------
(* SatelliteTargetGroup.get_targets.                                       *)

\* an optional string attribute: None, or a string
None == [is_none |-> TRUE, val |-> ""]

Some(x) == [is_none |-> FALSE, val |-> x]

SceneIds == {"a", "b", "c"}

\* ds.get_kite_scenes(): the scenes of a dataset, in its order; a dataset
\* holds one scene per scene id (it looks scenes up by id)
Datasets ==
    UNION {{q \in [1..n -> SceneIds] : \A i, j \in 1..n : i # j => q[i] # q[j]}
           : n \in 0..MaxScenes}

\* TargetGroup.path, a StringID when given
GroupPaths == {None, Some("p"), Some("q")}

DefaultPaths == {"d", "p"}

\* SatelliteTargetGroup.kite_scenes: None, or a list of scene ids and
\* '*all'; lists of up to two distinct entries are drawn
KiteScenes ==
    {[is_none |-> TRUE, items |-> {}]} \cup
    {[is_none |-> FALSE, items |-> S] :
        S \in {X \in SUBSET (SceneIds \cup {"*all"}) : Cardinality(X) <= 2}}

\* the default path whatever the group's path
path_or_default(a, b) == b

\* a or b on an optional string: b when a is None or empty
path_or(a, b) == IF a.is_none \/ a.val = "" THEN b ELSE a.val

\* the id without the scene
string_id_pathonly(t) == t.path

\* SatelliteMisfitTarget.string_id: '.'.join([self.path, self.scene_id])
string_id(t) == t.path \o "." \o t.scene_id

\* the test of the loop: the scene is taken unless neither its id nor
\* '*all' is in kite_scenes
selected(kite_scenes, scene_id) ==
    ~(scene_id \notin kite_scenes.items /\ "*all" \notin kite_scenes.items)

\* scene.quadtree.nleaves of the scene with this id
nleaves(scene_id) ==
    CASE scene_id = "a" -> 1
      [] scene_id = "b" -> 2
      [] OTHER          -> 3

\* MisfitTarget.nmisfits is a property without a setter (base.py:84-86), so
\* the assignment `self.nmisfits = ...` of SatelliteMisfitTarget.set_dataset
\* raises AttributeError unless a class before MisfitTarget in the method
\* resolution order (gf.SatelliteTarget and its bases, which are not part of
\* this repository) provides an assignable nmisfits
NmisfitsAssignable == BOOLEAN

\* SatelliteMisfitTarget.set_dataset: MisfitTarget.set_dataset stores the
\* dataset, then the leaf count of the scene is assigned to nmisfits
set_dataset(t, ds, assignable) ==
    IF assignable
    THEN [raised |-> "none",
          target |-> [t EXCEPT !._ds = Some(ds),
                               !.nmisfits = nleaves(t.scene_id)]]
    ELSE [raised |-> "AttributeError",
          target |-> [t EXCEPT !._ds = Some(ds)]]

\* SatelliteMisfitTarget(scene_id=..., path=...): MisfitTarget.__init__
\* leaves _ds None; nmisfits reads 1 until it is assigned
SatelliteMisfitTarget(scene_id, path) ==
    [scene_id |-> scene_id, path |-> path, _ds |-> None, nmisfits |-> 1]

\* get_targets(ds, event, default_path): one target per selected scene, in
\* the order of the dataset, each given the dataset by set_dataset;
\* `x in None` raises TypeError at the first scene, and a set_dataset that
\* raises ends the call at the first selected scene
get_targets(path, kite_scenes, ds, default_path, assignable) ==
    IF kite_scenes.is_none /\ ds # <<>>
    THEN [raised |-> "TypeError", targets |-> <<>>]
    ELSE LET Test(scene_id) == selected(kite_scenes, scene_id)
             ids == SelectSeq(ds, Test)
             made == [i \in 1..Len(ids) |->
                        set_dataset(
                            SatelliteMisfitTarget(
                                ids[i], path_or(path, default_path)),
                            ds, assignable)]
         IN  IF \E i \in 1..Len(ids) : made[i].raised # "none"
             THEN [raised |-> "AttributeError", targets |-> <<>>]
             ELSE [raised  |-> "none",
                   targets |-> [i \in 1..Len(ids) |-> made[i].target]]

InitTargets ==
    /\ targets = <<>>
    /\ tcall = [op |-> "none", path |-> None,
                kite_scenes |-> [is_none |-> TRUE, items |-> {}],
                ds |-> <<>>, default_path |-> "d", assignable |-> TRUE,
                raised |-> "none"]

GetTargets(path, kite_scenes, ds, default_path, assignable) ==
    LET out == get_targets(path, kite_scenes, ds, default_path, assignable)
    IN  /\ targets' = out.targets
        /\ tcall' = [op |-> "get_targets", path |-> path,
                     kite_scenes |-> kite_scenes, ds |-> ds,
                     default_path |-> default_path,
                     assignable |-> assignable, raised |-> out.raised]
        /\ UNCHANGED notTargets

NextTargets ==
    \E path \in GroupPaths, kite_scenes \in KiteScenes,
       ds \in Datasets, default_path \in DefaultPaths,
       assignable \in NmisfitsAssignable :
        GetTargets(path, kite_scenes, ds, default_path, assignable)

----------------------------------------------------------------------------
(* Building the targets of a problem: every target group of the            *)
(* configuration contributes the targets its get_targets returns.          *)

\* a configured SatelliteTargetGroup, with the default path it is handed
GroupConfigs ==
    [path : GroupPaths,
     kite_scenes : {[is_none |-> FALSE, items |-> {"*all"}],
                    [is_none |-> FALSE, items |-> {"a"}]},
     default_path : DefaultPaths]

RECURSIVE Concat(_)
\* the lists of a list of lists, joined in order
Concat(lists) ==
    IF lists = <<>> THEN <<>> ELSE Head(lists) \o Concat(Tail(lists))

\* the targets of all groups, in the order of the groups; an exception of a
\* get_targets ends the build, and so does a string id that two targets
\* share, with ConfigurationError
build_targets(gs, ds, assignable) ==
    LET outs == [i \in 1..Len(gs) |->
                    get_targets(gs[i].path, gs[i].kite_scenes, ds,
                                gs[i].default_path, assignable)]
        failed == {i \in 1..Len(gs) : outs[i].raised # "none"}
        first == CHOOSE i \in failed : \A j \in failed : i <= j
        all == Concat([i \in 1..Len(gs) |-> outs[i].targets])
    IN  IF failed # {}
        THEN [raised |-> outs[first].raised, targets |-> <<>>]
        ELSE IF \E i, j \in 1..Len(all) :
                    i # j /\ string_id(all[i]) = string_id(all[j])
             THEN [raised |-> "ConfigurationError", targets |-> <<>>]
             ELSE [raised |-> "none", targets |-> all]

GroupDefaults ==
    <<[path |-> None, kite_scenes |-> [is_none |-> FALSE, items |-> {"*all"}],
       default_path |-> "d"],
      [path |-> None, kite_scenes |-> [is_none |-> FALSE, items |-> {"*all"}],
       default_path |-> "p"]>>

BuildIdle == [op |-> "none", ds |-> <<>>, assignable |-> TRUE,
              raised |-> "none", targets |-> <<>>]

IdleBuild ==
    /\ groups = GroupDefaults
    /\ build = BuildIdle

\* the configurations of two target groups
InitBuild ==
    /\ groups \in {<<g1, g2>> : g1 \in GroupConfigs, g2 \in GroupConfigs}
    /\ build = BuildIdle

BuildTargets(ds, assignable) ==
    LET out == build_targets(groups, ds, assignable)
    IN  /\ build' = [op |-> "build", ds |-> ds, assignable |-> assignable,
                      raised |-> out.raised, targets |-> out.targets]
        /\ UNCHANGED <<groups, notBuild>>

NextBuild ==
    \E ds \in Datasets, assignable \in NmisfitsAssignable :
        BuildTargets(ds, assignable)

----------------------------------------------------------------------------
(* SatelliteMisfitTarget.target_ranges.  A dict is a function from its     *)
(* keys to its values.                                                     *)

RangeNames == {"offset", "ramp_north", "ramp_east"}

\* gf.Range values, as tokens
RangeValues == {"r1", "r2"}

TargetIds == {"p.a", "q.b"}

\* the interpreters the code is written for (grond.py:3 imports
\* print_function and absolute_import from __future__)
Pythons == {"python2", "python3"}

\* misfit_config.ranges: any dict from range names to ranges
RangesDicts == UNION {[S -> RangeValues] : S \in SUBSET RangeNames}

EmptyDict == [k \in {} |-> "r1"]

\* '%s:%s' % (self.id, k)
prefixed(id, k) == id \o ":" \o k

\* d[new] = d.pop(k)
renamed(d, k, new) ==
    [x \in (DOMAIN d \ {k}) \cup {new} |-> IF x = new THEN d[k] ELSE d[x]]

RECURSIVE rename_all(_, _, _)
\* the loop over a list of keys taken before the loop starts
rename_all(id, d, keys) ==
    IF keys = {} THEN d
    ELSE LET k == CHOOSE x \in keys : TRUE
         IN  rename_all(id, renamed(d, k, prefixed(id, k)), keys \ {k})

NotHole(k) == k # ""

RECURSIVE rename_live(_, _, _, _, _)
\* the loop over a live view of the keys of the dict it changes.  The
\* iterator walks the entries of the dict in insertion order: entries is
\* that list ("" where an entry was popped), pos the number of entries it
\* has passed, left the number of keys it still expects.  A popped key
\* leaves a hole, an inserted key goes to the end; an insert that finds the
\* table full rebuilds it without the holes, which depends on the spare
\* room of the table and is open here.  The iterator stops at the end of
\* the entries, and raises RuntimeError when it finds an entry after it has
\* handed out as many keys as the dict had at the start.
rename_live(id, entries, d, pos, left) ==
    LET live == {i \in (pos + 1)..Len(entries) : entries[i] # ""}
    IN  IF live = {} THEN {[raised |-> "none", dict |-> d]}
        ELSE IF left = 0 THEN {[raised |-> "RuntimeError", dict |-> d]}
        ELSE LET i == CHOOSE x \in live : \A y \in live : x <= y
                 k == entries[i]
                 new == prefixed(id, k)
                 d2 == renamed(d, k, new)
                 holes == [entries EXCEPT ![i] = ""]
             IN  rename_live(id, Append(holes, new), d2, i, left - 1)
                 \cup rename_live(id, Append(SelectSeq(holes, NotHole), new),
                                  d2, i, left - 1)

\* the orders in which a dict can hold its keys
Orders(S) ==
    {q \in [1..Cardinality(S) -> S] :
        \A i, j \in 1..Cardinality(S) : i # j => q[i] # q[j]}

\* the body of the first read: a copy of misfit_config.ranges is stored in
\* _target_ranges, then every key k of it is renamed to '<id>:<k>' while
\* the keys are iterated.  keys() is a list in Python 2 and a view of the
\* dict in Python 3.
first_read(py, id, config_ranges) ==
    IF py = "python2"
    THEN {[raised |-> "none",
           dict |-> rename_all(id, config_ranges, DOMAIN config_ranges)]}
    ELSE UNION {rename_live(id, order, config_ranges, 0, Len(order)) :
                    order \in Orders(DOMAIN config_ranges)}

IdleRanges ==
    /\ target_id = "p.a"
    /\ ranges = EmptyDict
    /\ _target_ranges = [is_none |-> TRUE, dict |-> EmptyDict]
    /\ rread = [op |-> "none", first |-> FALSE, raised |-> "none",
                 value |-> EmptyDict]

\* a target as constructed (MisfitTarget.__init__: _target_ranges = None),
\* with the ranges of its misfit_config
InitRanges ==
    /\ target_id \in TargetIds
    /\ ranges \in RangesDicts
    /\ _target_ranges = [is_none |-> TRUE, dict |-> EmptyDict]
    /\ rread = [op |-> "none", first |-> FALSE, raised |-> "none",
                 value |-> EmptyDict]

\* one read of the property target_ranges
ReadTargetRanges(py) ==
    /\ IF _target_ranges.is_none
       THEN \E out \in first_read(py, target_id, ranges) :
               /\ _target_ranges' = [is_none |-> FALSE, dict |-> out.dict]
               /\ rread' = [op |-> "target_ranges", first |-> TRUE,
                            raised |-> out.raised,
                            value |-> IF out.raised = "none" THEN out.dict
                                      ELSE EmptyDict]
       ELSE /\ rread' = [op |-> "target_ranges", first |-> FALSE,
                         raised |-> "none", value |-> _target_ranges.dict]
            /\ UNCHANGED _target_ranges
    /\ UNCHANGED <<target_id, ranges, notRanges>>

NextRanges == \E py \in Pythons : ReadTargetRanges(py)

----------------------------------------------------------------------------
(* SatelliteMisfitTarget.post_process.  Displacements, weights and         *)
(* parameter values are whole numbers here, so sums and products are       *)
(* exact; a square root is kept as the number it is the root of.           *)

\* num.sqrt(x): the non-negative number whose square is x
Root(x) == [squared |-> x]

RECURSIVE Sum(_)
\* num.sum of a vector
Sum(xs) == IF xs = <<>> THEN 0 ELSE Head(xs) + Sum(Tail(xs))

\* the plain sum of the entries (taken non-negative), as a root
plain_sum(xs) == Root(Sum(xs) * Sum(xs))

\* num.sqrt(num.sum(xs**2))
l2_norm(xs) == Root(Sum([i \in 1..Len(xs) |-> xs[i] * xs[i]]))

LeafCounts == {1, 2}

\* one leaf of the quadtree: its median displacement, its weight and the
\* distance of its centre (east, north)
Leaves ==
    [median : {0, 4}, weight : {1, 2}, distance : {<<0, 0>>, <<1, 2>>}]

\* a scene: the leaves of its quadtree, in order
Scenes == UNION {[1..n -> Leaves] : n \in LeafCounts}

\* parameter_values: {} as constructed, or the values given to
\* set_parameter_values
NoValues == [given |-> FALSE, offset |-> 0, ramp_north |-> 0, ramp_east |-> 0]

ParameterValues ==
    {NoValues,
     [given |-> TRUE, offset |-> 0, ramp_north |-> 0, ramp_east |-> 0],
     [given |-> TRUE, offset |-> 1, ramp_north |-> 0, ramp_east |-> 0],
     [given |-> TRUE, offset |-> 0, ramp_north |-> 1, ramp_east |-> 2]}

ResultModes == {"sparse", "full"}

\* the offset and ramp of each leaf
stat_level(sc, pv) ==
    [i \in 1..Len(sc) |->
        pv.offset + sc[i].distance[1] * pv.ramp_east
                  + sc[i].distance[2] * pv.ramp_north]

\* post_process(engine, source, statics): what it raises, the caller's
\* statics after the call, and the result.  With optimize_orbital_ramp the
\* level is added to statics['displacement.los'] in place; reading a
\* parameter value that was never given raises KeyError before that.
post_process(sc, optimize, pv, mode, los) ==
    IF optimize /\ ~pv.given
    THEN [raised |-> "KeyError", statics |-> los,
          result |-> [misfits |-> <<>>, full |-> FALSE,
                      statics_syn |-> <<>>, statics_obs |-> <<>>]]
    ELSE LET level == stat_level(sc, pv)
             stat_syn == IF optimize
                         THEN [i \in 1..Len(sc) |-> los[i] + level[i]]
                         ELSE los
             res_w == [i \in 1..Len(sc) |->
                         (sc[i].median - stat_syn[i]) * sc[i].weight]
             obs_w == [i \in 1..Len(sc) |-> sc[i].median * sc[i].weight]
             row == <<l2_norm(res_w), l2_norm(obs_w)>>
         IN  [raised |-> "none", statics |-> stat_syn,
              result |->
                  IF mode = "full"
                  THEN [misfits |-> <<row>>, full |-> TRUE,
                        statics_syn |-> stat_syn,
                        statics_obs |-> [i \in 1..Len(sc) |-> sc[i].median]]
                  ELSE [misfits |-> <<row>>, full |-> FALSE,
                        statics_syn |-> <<>>, statics_obs |-> <<>>]]

PretIdle ==
    [op |-> "none", raised |-> "none", statics_before |-> <<>>,
     result |-> [misfits |-> <<>>, full |-> FALSE,
                 statics_syn |-> <<>>, statics_obs |-> <<>>]]

IdlePostProcess ==
    /\ scene = <<[median |-> 0, weight |-> 1, distance |-> <<0, 0>>]>>
    /\ optimize_orbital_ramp = TRUE
    /\ parameter_values = NoValues
    /\ _result_mode = "sparse"
    /\ statics = <<0>>
    /\ ncalls = 0
    /\ pret = PretIdle

\* a target with its scene and parameter values, and the output of one
\* forward-model run, one displacement for each leaf
InitPostProcess ==
    /\ scene \in Scenes
    /\ optimize_orbital_ramp \in BOOLEAN
    /\ parameter_values \in ParameterValues
    /\ _result_mode \in ResultModes
    /\ statics \in [1..Len(scene) -> {0, 1}]
    /\ ncalls = 0
    /\ pret = PretIdle

\* one call of post_process with the caller's statics
PostProcess ==
    /\ ncalls < MaxCalls
    /\ LET out == post_process(scene, optimize_orbital_ramp,
                               parameter_values, _result_mode, statics)
       IN  /\ statics' = out.statics
           /\ pret' = [op |-> "post_process", raised |-> out.raised,
                       statics_before |-> statics, result |-> out.result]
    /\ ncalls' = ncalls + 1
    /\ UNCHANGED <<scene, optimize_orbital_ramp, parameter_values,
                   _result_mode, notPostProcess>>

NextPostProcess == PostProcess

----------------------------------------------------------------------------
(* get_combined_weight of MisfitTarget and of SatelliteMisfitTarget.       *)

TargetClasses == {"MisfitTarget", "SatelliteMisfitTarget"}

\* manual_weight, a float: 1.0 by default
ManualWeights == {Rat(n, d) : n \in 0..6, d \in 1..3}

\* how the argument apply_balancing_weights is given in the call
BalancingArgs == {"omitted", "False", "True"}

\* get_combined_weight: MisfitTarget takes no argument and returns
\* num.ones(1); SatelliteMisfitTarget returns num.array([manual_weight])
\* whatever apply_balancing_weights is
get_combined_weight(cls, weight, arg) ==
    IF cls = "MisfitTarget"
    THEN IF arg = "omitted"
         THEN [raised |-> "none", value |-> <<ToRat(1)>>]
         ELSE [raised |-> "TypeError", value |-> <<>>]
    ELSE [raised |-> "none", value |-> <<weight>>]

WretIdle == [op |-> "none", arg |-> "omitted", raised |-> "none",
             value |-> <<>>]

IdleWeight ==
    /\ target_class = "MisfitTarget"
    /\ manual_weight = ToRat(1)
    /\ wret = WretIdle

\* a target of either class with its manual weight
InitWeight ==
    /\ target_class \in TargetClasses
    /\ manual_weight \in ManualWeights
    /\ wret = WretIdle

GetCombinedWeight(arg) ==
    LET out == get_combined_weight(target_class, manual_weight, arg)
    IN  /\ wret' = [op |-> "get_combined_weight", arg |-> arg,
                     raised |-> out.raised, value |-> out.value]
        /\ UNCHANGED <<target_class, manual_weight, notWeight>>

NextWeight == \E arg \in BalancingArgs : GetCombinedWeight(arg)

----------------------------------------------------------------------------
(* The harvest command.  A chain is the list of the global misfits of its  *)
(* samples, ranked by the chain's own misfit, best first; a sample is      *)
(* <<chain, rank>>.  Misfits are whole numbers here.                       *)

GmValues == {1, 9}

\* samples in each chain of the run
ChainLengths == {2}

\* bootstrap chains of the run
BootstrapCounts == {0, 2}

\* the global chain ranks by the global misfit itself
GlobalChains ==
    UNION {{q \in [1..n -> GmValues] : \A i, j \in 1..n : i <= j => q[i] <= q[j]}
           : n \in ChainLengths}

BootstrapChains == UNION {[1..n -> GmValues] : n \in ChainLengths}

RunChains ==
    UNION {{<<g>> \o bs : g \in GlobalChains, bs \in [1..n -> BootstrapChains]}
           : n \in BootstrapCounts}

\* the options of the command line: --force, --neach, --weed
HarvestOptions == [force : BOOLEAN, neach : {1, 2, 3}, weed : 0..3]

\* weed is handed on as 0 whatever the option
harvest_kwargs_noweed(options) ==
    [force |-> options.force, nbest |-> options.neach, weed |-> 0]

\* weed is handed on as 2 whenever weeding is asked for
harvest_kwargs_level2(options) ==
    [force |-> options.force, nbest |-> options.neach,
     weed |-> IF options.weed = 1 THEN 2 ELSE options.weed]

\* weed is handed on as 1 whenever weeding is asked for
harvest_kwargs_level1(options) ==
    [force |-> options.force, nbest |-> options.neach,
     weed |-> IF options.weed = 2 THEN 1 ELSE options.weed]

\* the keyword arguments command_harvest hands to grond.harvest
harvest_kwargs(options) ==
    [force |-> options.force, nbest |-> options.neach, weed |-> options.weed]

\* the best nbest samples of chain c
best(c, nbest) == {<<c, r>> : r \in 1..nbest}

\* the sum of the global misfits of the best nbest samples of chain c
chain_sum(cs, c, nbest) == Sum([r \in 1..nbest |-> cs[c][r]])

\* over the best nbest samples of all chains: their number, the sum of
\* their global misfits and the sum of the squares
pop_count(cs, nbest) == Len(cs) * nbest

pop_sum(cs, nbest) == Sum([c \in 1..Len(cs) |-> chain_sum(cs, c, nbest)])

pop_sumsq(cs, nbest) ==
    Sum([c \in 1..Len(cs) |->
            Sum([r \in 1..nbest |-> cs[c][r] * cs[c][r]])])

\* mean of the chain > mean + standard deviation of the population, the
\* standard deviation being sqrt(sum((x - mean)**2) / count): with
\* D = count * chain_sum - nbest * pop_sum this is
\* D > nbest * sqrt(count * pop_sumsq - pop_sum**2)
chain_is_bad(cs, c, nbest) ==
    LET n == pop_count(cs, nbest)
        s == pop_sum(cs, nbest)
        d == n * chain_sum(cs, c, nbest) - nbest * s
    IN  d > 0 /\ d * d > nbest * nbest * (n * pop_sumsq(cs, nbest) - s * s)

\* global misfit of the sample > mean of the population
sample_is_bad(cs, sample, nbest) ==
    pop_count(cs, nbest) * cs[sample[1]][sample[2]] > pop_sum(cs, nbest)

\* grond.harvest(rundir, force, nbest, weed): what it raises and the
\* ensemble it writes
grond_harvest(cs, kwargs, dir) ==
    LET nbest == kwargs.nbest
        weed == kwargs.weed
        used == IF weed = 3 THEN {1} ELSE 1..Len(cs)
        kept == IF weed \in {1, 2}
                THEN {c \in used : c = 1 \/ ~chain_is_bad(cs, c, nbest)}
                ELSE used
        taken == UNION {best(c, nbest) : c \in kept}
    IN  IF ~dir.is_none /\ ~kwargs.force
        THEN [raised |-> "DirectoryAlreadyExists", ensemble |-> {}]
        ELSE IF \E c \in used : Len(cs[c]) < nbest
        THEN [raised |-> "HarvestError", ensemble |-> {}]
        ELSE [raised |-> "none",
              ensemble |-> IF weed = 2
                           THEN {s \in taken : ~sample_is_bad(cs, s, nbest)}
                           ELSE taken]

HarvestDefaults == [force |-> FALSE, neach |-> 10, weed |-> 0]

NoDir == [is_none |-> TRUE, ensemble |-> {}]

HvIdle == [op |-> "none", nargs |-> 1, options |-> HarvestDefaults,
           raised |-> "none", ensemble |-> {}]

IdleHarvest ==
    /\ chains = <<(<<1, 1>>)>>
    /\ harvest_dir = NoDir
    /\ hv = HvIdle

\* the chains of a finished run that was not harvested yet
InitHarvest ==
    /\ chains \in RunChains
    /\ harvest_dir = NoDir
    /\ hv = HvIdle

\* command_harvest(args): the options parsed, args the arguments left
command_harvest(nargs, options) ==
    /\ IF nargs # 1
       THEN /\ hv' = [op |-> "harvest", nargs |-> nargs, options |-> options,
                      raised |-> "SystemExit", ensemble |-> {}]
            /\ UNCHANGED harvest_dir
       ELSE LET out == grond_harvest(chains, harvest_kwargs(options),
                                     harvest_dir)
            IN  /\ hv' = [op |-> "harvest", nargs |-> nargs,
                          options |-> options, raised |-> out.raised,
                          ensemble |-> out.ensemble]
                /\ harvest_dir' =
                      IF out.raised = "none"
                      THEN [is_none |-> FALSE, ensemble |-> out.ensemble]
                      ELSE harvest_dir
    /\ UNCHANGED <<chains, notHarvest>>

NextHarvest ==
    \E nargs \in 0..2, options \in HarvestOptions :
        command_harvest(nargs, options)

----------------------------------------------------------------------------
(* The forward command.                                                    *)

\* the words of a command line: a run directory, a configuration file,
\* event names
ArgWords == {"rundir", "config.yml", "ev1", "ev2", "ev3"}

ForwardArgs == UNION {[1..n -> ArgWords] : n \in 0..MaxArgs}

\* the rest of a list, empty for the empty list: args[1:]
rest(args) == IF args = <<>> THEN <<>> ELSE Tail(args)

NoCall == [made |-> FALSE, run_path |-> "", event_names |-> <<>>]

\* command_forward(args), args being the arguments the options parser
\* leaves: the message it dies with, or the call of grond.forward it makes
command_forward(args) ==
    IF Len(args) < 1
    THEN [died |-> "missing arguments", call |-> NoCall]
    ELSE IF rest(args) = <<>>
    THEN [died |-> "no event names given", call |-> NoCall]
    ELSE [died |-> "",
          call |-> [made |-> TRUE, run_path |-> args[1],
                    event_names |-> rest(args)]]

IdleForward ==
    fwd = [op |-> "none", args |-> <<>>, died |-> "", call |-> NoCall]

Forward(args) ==
    LET out == command_forward(args)
    IN  /\ fwd' = [op |-> "forward", args |-> args, died |-> out.died,
                   call |-> out.call]
        /\ UNCHANGED notForward

NextForward == \E args \in ForwardArgs : Forward(args)

----------------------------------------------------------------------------
(* PlotCollectionManager (src/plot/collection.py:47-125).  One directory   *)
(* of plots: the manifest plot_collection.yaml lists the group references, *)
(* every group has a '<name>.<variant>.plot_group.yaml' file and one image *)
(* file per item and format.  create_group_mpl touches the directory in    *)
(* several steps, so it is modelled step by step: one action per file      *)
(* system operation.  A manager reads the manifest when it is constructed  *)
(* and never again.                                                        *)

Managers == {"m1", "m2"}

\* group_refs = List.T(Tuple.T(2, StringID.T())): StringID allows dots
GroupRefs == {<<"a", "b.c">>, <<"a.b", "c">>, <<"d", "e">>}

\* the calls: the items iter_item_figure yields, by name, and
\* config.formats, by extension
PlotCalls == {[items |-> <<"i1">>, formats |-> <<"png">>],
              [items |-> <<"i1", "i2">>, formats |-> <<"pdf", "png">>]}

\* self._path
PlotDir == "plots"

path_collection == PlotDir \o "/" \o "plot_collection.yaml"

filename_image(group, item, format) ==
    group.name \o "." \o group.variant \o "." \o item \o "." \o format

path_image(group, item, format) ==
    PlotDir \o "/" \o filename_image(group, item, format)

path_group(group_name, group_variant) ==
    PlotDir \o "/" \o group_name \o "." \o group_variant \o "."
        \o "plot_group.yaml"

\* PlotCollection(): no group references
PlotCollection == [group_refs |-> <<>>]

NoManifest == [exists |-> FALSE, group_refs |-> <<>>]

NoGroup == [name |-> "", variant |-> "", items |-> <<>>, formats |-> <<>>,
            id |-> 0, nsaved |-> 0]

NoFiles == [p \in {} |-> [kind |-> "image", by |-> NoGroup]]

\* os.unlink of a set of paths, missing ones ignored
unlinked(files, paths) == [p \in (DOMAIN files) \ paths |-> files[p]]

written(files, path, content) ==
    [p \in (DOMAIN files) \cup {path} |->
        IF p = path THEN content ELSE files[p]]

\* list.remove(x): the first occurrence goes
list_remove(list, x) ==
    LET i == CHOOSE i \in DOMAIN list :
                 list[i] = x /\ \A j \in 1..(i - 1) : list[j] # x
    IN  SubSeq(list, 1, i - 1) \o SubSeq(list, i + 1, Len(list))

\* a variant of remove_group_files that leaves the images where they are
remove_group_files_only_group(files, path) == unlinked(files, {path})

remove_group_files(files, path) ==
    LET group == files[path].by
        images == {path_image(group, group.items[i], group.formats[j]) :
                      i \in DOMAIN group.items, j \in DOMAIN group.formats}
    IN  unlinked(files, images \cup {path})

\* the k-th image of a call: items outside, formats inside
image_item(group, k) == group.items[((k - 1) \div Len(group.formats)) + 1]

image_format(group, k) == group.formats[((k - 1) % Len(group.formats)) + 1]

IdlePlot ==
    /\ manifest = NoManifest
    /\ pfiles = NoFiles
    /\ _collection = [m \in Managers |-> PlotCollection]
    /\ ppc = [m \in Managers |-> "closed"]
    /\ pcur = [m \in Managers |-> NoGroup]
    /\ ncreate = 0
    /\ plast = [r \in GroupRefs |-> 0]
    /\ pcreated = [m \in Managers |-> {}]
    /\ punlinked = {}

\* PlotCollectionManager(path): __init__ and load_collection
Open(m) ==
    /\ ppc[m] = "closed"
    /\ _collection' = [_collection EXCEPT ![m] =
           IF manifest.exists THEN [group_refs |-> manifest.group_refs]
           ELSE PlotCollection]
    /\ ppc' = [ppc EXCEPT ![m] = "idle"]
    /\ UNCHANGED <<manifest, pfiles, pcur, ncreate, plast, pcreated,
                   punlinked, notPlot>>

\* create_group_mpl, lines 81-88: the group object and its path
CreateGroupMpl(m, ref, items, formats) ==
    /\ ppc[m] = "idle"
    /\ ncreate < MaxCreates
    /\ ncreate' = ncreate + 1
    /\ pcur' = [pcur EXCEPT ![m] =
           [name |-> ref[1], variant |-> ref[2], items |-> items,
            formats |-> formats, id |-> ncreate + 1, nsaved |-> 0]]
    /\ ppc' = [ppc EXCEPT ![m] = "remove"]
    /\ UNCHANGED <<manifest, pfiles, _collection, plast, pcreated,
                   punlinked, notPlot>>

\* lines 89-90: the files of the group now at that path go
RemoveOld(m) ==
    /\ ppc[m] = "remove"
    /\ LET path == path_group(pcur[m].name, pcur[m].variant)
       IN  /\ pfiles' = IF path \in DOMAIN pfiles
                         THEN remove_group_files(pfiles, path)
                         ELSE pfiles
           /\ punlinked' = punlinked \cup ((DOMAIN pfiles) \ DOMAIN pfiles')
    /\ ppc' = [ppc EXCEPT ![m] = "deref"]
    /\ UNCHANGED <<manifest, _collection, pcur, ncreate, plast, pcreated,
                   notPlot>>

dump_collection(collection) ==
    [exists |-> TRUE, group_refs |-> collection.group_refs]

\* lines 92-96: the reference leaves the list, the list is dumped
Deref(m) ==
    /\ ppc[m] = "deref"
    /\ LET group_ref == <<pcur[m].name, pcur[m].variant>>
           refs == _collection[m].group_refs
           refs1 == IF \E i \in DOMAIN refs : refs[i] = group_ref
                    THEN list_remove(refs, group_ref)
                    ELSE refs
       IN  /\ _collection' = [_collection EXCEPT ![m].group_refs = refs1]
           /\ manifest' = dump_collection([group_refs |-> refs1])
    /\ ppc' = [ppc EXCEPT ![m] = "save"]
    /\ UNCHANGED <<pfiles, pcur, ncreate, plast, pcreated, punlinked,
                   notPlot>>

\* lines 98-108: one fig.savefig
SaveFig(m) ==
    /\ ppc[m] = "save"
    /\ pcur[m].nsaved < Len(pcur[m].items) * Len(pcur[m].formats)
    /\ LET k == pcur[m].nsaved + 1
           path == path_image(pcur[m], image_item(pcur[m], k),
                              image_format(pcur[m], k))
       IN  pfiles' = written(pfiles, path,
                         [kind |-> "image",
                          by |-> [pcur[m] EXCEPT !.nsaved = 0]])
    /\ pcur' = [pcur EXCEPT ![m].nsaved = @ + 1]
    /\ UNCHANGED <<manifest, _collection, ppc, ncreate, plast, pcreated,
                   punlinked, notPlot>>

\* lines 110-111: group.dump
DumpGroup(m) ==
    /\ ppc[m] = "save"
    /\ pcur[m].nsaved = Len(pcur[m].items) * Len(pcur[m].formats)
    /\ pfiles' = written(pfiles, path_group(pcur[m].name, pcur[m].variant),
                     [kind |-> "group",
                      by |-> [pcur[m] EXCEPT !.nsaved = 0]])
    /\ ppc' = [ppc EXCEPT ![m] = "append"]
    /\ UNCHANGED <<manifest, _collection, pcur, ncreate, plast, pcreated,
                   punlinked, notPlot>>

\* lines 112-113: the reference is appended, the list is dumped, the call
\* returns
Commit(m) ==
    /\ ppc[m] = "append"
    /\ LET group_ref == <<pcur[m].name, pcur[m].variant>>
           refs1 == Append(_collection[m].group_refs, group_ref)
       IN  /\ _collection' = [_collection EXCEPT ![m].group_refs = refs1]
           /\ manifest' = dump_collection([group_refs |-> refs1])
           /\ plast' = [plast EXCEPT ![group_ref] = pcur[m].id]
           /\ pcreated' = [pcreated EXCEPT ![m] = @ \cup {group_ref}]
    /\ ppc' = [ppc EXCEPT ![m] = "idle"]
    /\ pcur' = [pcur EXCEPT ![m] = NoGroup]
    /\ UNCHANGED <<pfiles, ncreate, punlinked, notPlot>>

\* the call is interrupted, or savefig raises: the exception leaves
\* create_group_mpl where it stands
Interrupt(m) ==
    /\ ppc[m] \in {"remove", "deref", "save", "append"}
    /\ ppc' = [ppc EXCEPT ![m] = "idle"]
    /\ pcur' = [pcur EXCEPT ![m] = NoGroup]
    /\ UNCHANGED <<manifest, pfiles, _collection, ncreate, plast, pcreated,
                   punlinked, notPlot>>

Create(m) ==
    \E ref \in GroupRefs, call \in PlotCalls :
        CreateGroupMpl(m, ref, call.items, call.formats)

\* one manager, every call runs to its end
NextPlot ==
    \/ Open("m1")
    \/ Create("m1")
    \/ RemoveOld("m1")
    \/ Deref("m1")
    \/ SaveFig("m1")
    \/ DumpGroup("m1")
    \/ Commit("m1")

\* one manager, a call may stop anywhere
NextPlotInterrupted ==
    \/ NextPlot
    \/ Interrupt("m1")

\* two managers on the same directory, every call runs to its end
NextPlotShared ==
    \E m \in Managers :
        \/ Open(m)
        \/ Create(m)
        \/ RemoveOld(m)
        \/ Deref(m)
        \/ SaveFig(m)
        \/ DumpGroup(m)
        \/ Commit(m)

----------------------------------------------------------------------------
(* The grond command line (src/apps/grond.py:18-41, 149-172): main picks   *)
(* the handler of a subcommand by its name.  A word of the command line is *)
(* kept as its parts between separators, so that d2u, which turns hyphens  *)
(* into underscores, is a conversion and not the identity.                 *)

Word(parts, sep) == [parts |-> parts, sep |-> sep]

RECURSIVE joined(_, _)
\* sep.join(parts)
joined(parts, sep) ==
    IF Len(parts) = 0 THEN ""
    ELSE IF Len(parts) = 1 THEN parts[1]
    ELSE parts[1] \o sep \o joined(Tail(parts), sep)

text(word) == joined(word.parts, word.sep)

\* d.replace('-', '_')
d2u(word) == [word EXCEPT !.sep = IF @ = "-" THEN "_" ELSE @]

\* the keys of subcommand_descriptions
subcommands ==
    {Word(<<"init">>, "-"), Word(<<"scenario">>, "-"),
     Word(<<"events">>, "-"), Word(<<"check">>, "-"), Word(<<"go">>, "-"),
     Word(<<"forward">>, "-"), Word(<<"harvest">>, "-"),
     Word(<<"plot">>, "-"), Word(<<"movie">>, "-"),
     Word(<<"export">>, "-"), Word(<<"report">>, "-"),
     Word(<<"diff">>, "-"), Word(<<"qc", "polarization">>, "-"),
     Word(<<"upgrade", "config">>, "-"), Word(<<"version">>, "-")}

\* globals(): the command_* functions the module defines
command_functions ==
    {"command_init", "command_scenario", "command_events", "command_check",
     "command_go", "command_forward", "command_harvest", "command_plot",
     "command_movie", "command_export", "command_report", "command_diff",
     "command_qc_polarization", "command_upgrade_config", "command_version"}

\* what else a user may type
OtherWords ==
    {Word(<<"help">>, "-"), Word(<<"", "", "help">>, "-"),
     Word(<<"", "h">>, "-"), Word(<<"bogus">>, "-"),
     Word(<<"qc", "polarization">>, "_")}

program_name == "grond"

\* sys.argv: the program and up to two words
Argvs ==
    LET words == subcommands \cup OtherWords
    IN  {<<Word(<<program_name>>, "-")>>}
        \cup {<<Word(<<program_name>>, "-"), w>> : w \in words}
        \cup {<<Word(<<program_name>>, "-"), w1, w2>> :
                 w1 \in words, w2 \in words}

NoRun == [op |-> "none", argv |-> <<>>, called |-> "", args |-> <<>>,
          exit |-> "", raised |-> "none"]

\* globals()[name](args): the function runs, or the lookup raises KeyError
call_global(run, name, args) ==
    IF name \in command_functions
    THEN [run EXCEPT !.called = name, !.args = args]
    ELSE [run EXCEPT !.raised = "KeyError"]

main(argv) ==
    LET run == [NoRun EXCEPT !.op = "main", !.argv = argv]
        command == argv[2]
        args == SubSeq(argv, 3, Len(argv))
        is_subcommand(w) == text(w) \in {text(c) : c \in subcommands}
    IN  IF Len(argv) < 2 THEN [run EXCEPT !.exit = "Usage"]
        ELSE IF is_subcommand(command)
        THEN call_global(run, "command_" \o text(d2u(command)),
                         [i \in DOMAIN args |-> text(args[i])])
        ELSE IF text(command) \in {"--help", "-h", "help"}
        THEN IF text(command) = "help" /\ Len(args) > 0
                    /\ is_subcommand(args[1])
             THEN LET help == call_global(run, "command_" \o text(args[1]),
                                          <<"--help">>)
                  IN  IF help.raised = "none"
                      THEN [help EXCEPT !.exit = "Usage"]
                      ELSE help
             ELSE [run EXCEPT !.exit = "Usage"]
        ELSE [run EXCEPT !.exit = "grond failed: no such subcommand: "
                                      \o text(command)]

IdleMain == mrun = NoRun

Main(argv) ==
    /\ mrun' = main(argv)
    /\ UNCHANGED notMain

NextMain == \E argv \in Argvs : Main(argv)

----------------------------------------------------------------------------
(* command_qc_polarization (src/apps/grond.py:951-1065): the polarization  *)
(* check of one target group, chosen by its path.                          *)

\* TargetGroup.path of the groups a configuration may hold
QcPaths == {"x", "y", "z"}

\* config.target_groups, by path
QcTargetGroups ==
    UNION {[1..n -> QcPaths] : n \in 0..MaxTargetGroups}

\* the command line after cl_parse, the configuration file, and the picks
\* file of --picks
QcInputs ==
    [nargs : {2, 3}, config_ok : BOOLEAN,
     picks : {"none", "found", "missing"},
     target_groups : QcTargetGroups, target_group_path : QcPaths]

NoQc == [op |-> "none", died |-> "", available |-> <<>>, ran |-> 0]

\* the loop over config.target_groups: its body ends with return or with
\* die, which raises SystemExit, so no second pass is ever made
for_target_groups(run, target_groups, target_group_path) ==
    LET target_group_paths_avail == <<>>
    IN  IF Len(target_groups) = 0 THEN run
        ELSE IF target_groups[1] = target_group_path
        THEN [run EXCEPT !.ran = 1]
        ELSE [run EXCEPT !.died = "no target group with path found",
                         !.available = Append(target_group_paths_avail,
                                              target_groups[1])]

command_qc_polarization(in) ==
    LET run == [NoQc EXCEPT !.op = "qc-polarization"]
    IN  IF in.nargs # 3 THEN [run EXCEPT !.died = "missing arguments"]
        ELSE IF ~in.config_ok THEN [run EXCEPT !.died = "GrondError"]
        ELSE IF in.picks = "missing"
        THEN [run EXCEPT !.died = "no markers associated with event"]
        ELSE for_target_groups(run, in.target_groups,
                               in.target_group_path)

IdleQc ==
    /\ qc_in = [nargs |-> 3, config_ok |-> TRUE, picks |-> "none",
                target_groups |-> <<>>, target_group_path |-> "x"]
    /\ qc = NoQc

InitQc ==
    /\ qc_in \in QcInputs
    /\ qc = NoQc

QcPolarization ==
    /\ qc.op = "none"
    /\ qc' = command_qc_polarization(qc_in)
    /\ UNCHANGED <<qc_in, notQc>>

NextQc == QcPolarization

----------------------------------------------------------------------------
(* The free parameters of a misfit target (src/targets/base.py:64-100,     *)
(* src/targets/satellite/target.py:76-91).  Two satellite targets of one   *)
(* group share the class-level list available_parameters; each keeps its   *)
(* own namespaced copy in _target_parameters once target_parameters is     *)
(* read.                                                                    *)

ParamTargets == {"t1", "t2"}

ParamPaths == {"p", "q"}

Parameter(name, unit) == [name |-> name, unit |-> unit, groups |-> <<>>]

\* SatelliteMisfitTarget.available_parameters
AvailableParameters ==
    <<Parameter("offset", "m"), Parameter("ramp_north", "m/m"),
      Parameter("ramp_east", "m/m")>>

\* SatelliteMisfitTarget.__init__: self.parameters is the class-level list
\* itself, or a new empty list
satellite_init(scene_id, path, optimize) ==
    [scene_id |-> scene_id, path |-> path,
     parameters |-> IF ~optimize THEN "[]" ELSE "available_parameters"]

\* self.parameters, read through the reference
parameters_of(t, class_list) ==
    IF t.parameters = "available_parameters" THEN class_list ELSE <<>>

NoParameters == [is_none |-> TRUE, val |-> <<>>]

\* Parameter.set_groups
set_groups(p, new_groups) == [p EXCEPT !.groups = new_groups]

\* copy.deepcopy: an equal value that shares nothing with the original
deepcopy(x) == x

nparameters(_tp) == IF _tp.is_none THEN 0 ELSE Len(_tp.val)

\* the list target_parameters returns, and keeps in _target_parameters
target_parameters(t, _tp, class_list) ==
    IF _tp.is_none
    THEN LET copied == deepcopy(parameters_of(t, class_list))
         IN  [i \in DOMAIN copied |->
                 set_groups(copied[i], <<string_id(t)>>)]
    ELSE _tp.val

NoRead == [target |-> "", op |-> "none", n |-> 0, list |-> <<>>]

IdleParams ==
    /\ available_parameters = AvailableParameters
    /\ ptarget = [t \in ParamTargets |-> satellite_init("a", "p", FALSE)]
    /\ _target_parameters = [t \in ParamTargets |-> NoParameters]
    /\ pread = NoRead

InitParams ==
    /\ available_parameters = AvailableParameters
    /\ \E path \in ParamPaths :
           ptarget \in [ParamTargets ->
               {satellite_init(s, path, o) : s \in SceneIds, o \in BOOLEAN}]
    /\ _target_parameters = [t \in ParamTargets |-> NoParameters]
    /\ pread = NoRead

ReadNparameters(t) ==
    /\ pread' = [target |-> t, op |-> "nparameters",
                 n |-> nparameters(_target_parameters[t]), list |-> <<>>]
    /\ UNCHANGED <<available_parameters, ptarget, _target_parameters,
                   notParams>>

ReadTargetParameters(t) ==
    LET list == target_parameters(ptarget[t], _target_parameters[t],
                                  available_parameters)
    IN  /\ _target_parameters' = [_target_parameters EXCEPT ![t] =
                                      [is_none |-> FALSE, val |-> list]]
        /\ pread' = [target |-> t, op |-> "target_parameters",
                     n |-> 0, list |-> list]
        /\ UNCHANGED <<available_parameters, ptarget, notParams>>

NextParams ==
    \E t \in ParamTargets :
        \/ ReadNparameters(t)
        \/ ReadTargetParameters(t)

----------------------------------------------------------------------------

InitOthers == InitRingBuffer /\ InitSolverState /\ InitGo /\ InitTargets

Idle ==
    /\ IdleBuild /\ IdleRanges /\ IdlePostProcess /\ IdleWeight
    /\ IdleHarvest /\ IdleForward
    /\ IdlePlot
    /\ IdleMain
    /\ IdleQc
    /\ IdleParams

Init == InitOthers /\ Idle

\* the components share no state, and each is checked on its own below
Next ==
    \/ NextRingBuffer
    \/ NextSolverState
    \/ NextSingleRun
    \/ NextGo
    \/ NextTargets
    \/ NextBuild
    \/ NextRanges
    \/ NextPostProcess
    \/ NextWeight
    \/ NextHarvest
    \/ NextForward
    \/ NextPlotInterrupted
    \/ NextPlotShared
    \/ NextMain
    \/ NextQc
    \/ NextParams

Spec == Init /\ [][Next]_vars

SpecRingBuffer == Init /\ [][NextRingBuffer]_vars

SpecSolverState == Init /\ [][NextSolverState]_vars

SpecSingleRun == Init /\ [][NextSingleRun]_vars

SpecGo == Init /\ [][NextGo]_vars

SpecTargets == Init /\ [][NextTargets]_vars

\* the specifications below start from the inputs of their component
InitSpecBuild ==
    /\ InitOthers /\ InitBuild /\ IdleForward
    /\ IdleRanges /\ IdlePostProcess /\ IdleWeight /\ IdleHarvest
    /\ IdlePlot
    /\ IdleMain
    /\ IdleQc
    /\ IdleParams

SpecBuild == InitSpecBuild /\ [][NextBuild]_vars

InitSpecRanges ==
    /\ InitOthers /\ InitRanges /\ IdleForward
    /\ IdleBuild /\ IdlePostProcess /\ IdleWeight /\ IdleHarvest
    /\ IdlePlot
    /\ IdleMain
    /\ IdleQc
    /\ IdleParams

SpecRanges == InitSpecRanges /\ [][NextRanges]_vars

InitSpecPostProcess ==
    /\ InitOthers /\ InitPostProcess /\ IdleForward
    /\ IdleBuild /\ IdleRanges /\ IdleWeight /\ IdleHarvest
    /\ IdlePlot
    /\ IdleMain
    /\ IdleQc
    /\ IdleParams

SpecPostProcess == InitSpecPostProcess /\ [][NextPostProcess]_vars

InitSpecWeight ==
    /\ InitOthers /\ InitWeight /\ IdleForward
    /\ IdleBuild /\ IdleRanges /\ IdlePostProcess /\ IdleHarvest
    /\ IdlePlot
    /\ IdleMain
    /\ IdleQc
    /\ IdleParams

SpecWeight == InitSpecWeight /\ [][NextWeight]_vars

InitSpecHarvest ==
    /\ InitOthers /\ InitHarvest /\ IdleForward
    /\ IdleBuild /\ IdleRanges /\ IdlePostProcess /\ IdleWeight
    /\ IdlePlot
    /\ IdleMain
    /\ IdleQc
    /\ IdleParams

SpecHarvest == InitSpecHarvest /\ [][NextHarvest]_vars

SpecForward == Init /\ [][NextForward]_vars

SpecPlot == Init /\ [][NextPlot]_vars

SpecPlotInterrupted == Init /\ [][NextPlotInterrupted]_vars

SpecPlotShared == Init /\ [][NextPlotShared]_vars

SpecMain == Init /\ [][NextMain]_vars

InitSpecQc ==
    /\ InitOthers /\ InitQc
    /\ IdleBuild /\ IdleRanges /\ IdlePostProcess /\ IdleWeight
    /\ IdleHarvest /\ IdleForward /\ IdlePlot /\ IdleMain
    /\ IdleParams

SpecQc == InitSpecQc /\ [][NextQc]_vars

InitSpecParams ==
    /\ InitOthers /\ InitParams
    /\ IdleBuild /\ IdleRanges /\ IdlePostProcess /\ IdleWeight
    /\ IdleHarvest /\ IdleForward /\ IdlePlot /\ IdleMain
    /\ IdleQc

SpecParams == InitSpecParams /\ [][NextParams]_vars

----------------------------------------------------------------------------
(* C1.  For a zero-initialised RingBuffer of capacity N, after any sequence *)
(* of k put() calls, mean() times N equals the sum of the last min(k, N)   *)
(* values put: older values are evicted, and the divisor stays N while     *)
(* fewer than N values were put.                                           *)

LastPuts(n) ==
    LET k == Len(rb_puts)
        m == IF k < n THEN k ELSE n
    IN  SubSeq(rb_puts, k - m + 1, k)

C1_MeanOfLastN ==
    RatMul(mean(rb), ToRat(BufCap)) = SeqSum(LastPuts(BufCap))

\* more than N values were put, an evicted one was not 0, the mean is not 0
C1_Witness ==
    /\ Len(rb_puts) > BufCap
    /\ rb_puts[1] # Zero
    /\ mean(rb) # Zero
    /\ SeqSum(rb_puts) # SeqSum(LastPuts(BufCap))

----------------------------------------------------------------------------
(* C2.  Assigning iiter when no time has elapsed since the last update     *)
(* (dt = 0) is a no-op rate update: the assignment completes without       *)
(* raising and iiter holds the assigned value afterwards.  (Every float of *)
(* the model is finite, so the rate stays finite when nothing is raised.)  *)

C2_ZeroDtIsNoOp ==
    (ret.op = "iiter=" /\ ret.dt = 0) =>
        /\ ret.raised = "none"
        /\ iiter(StateOf(ret.via)) = ret.value

----------------------------------------------------------------------------
(* C3.  Assigning iiter through one holder (a Solver's self.state, or a    *)
(* SolverState instance of its own) never changes the rate buffer,         *)
(* iter_per_second, iiter or the last-update time observed through any     *)
(* other holder.                                                           *)

Observed(s) == <<IterBufferOf(s), iter_per_second[s], _iiter[s], _last_update[s]>>

C3_NoSharedState ==
    [][(ret'.op = "iiter=" /\ ret'.raised = "none") =>
          \A p \in Holders \ {ret'.via} :
              StateOf(p) \in alive => Observed(StateOf(p))' = Observed(StateOf(p))
      ]_vars

----------------------------------------------------------------------------
(* C4.  Assigning iiter = v with dt = now - last_update > 0 pushes exactly *)
(* one sample (v - previous iiter)/dt into the 20-slot rate buffer (the    *)
(* slot under the cursor; the cursor advances by one, modulo 20), sets     *)
(* iter_per_second to the mean of the 20 slots, makes iiter read back v    *)
(* and sets last_update to the time at the end of the assignment.          *)

C4_AssignUpdatesRate ==
    [][(ret'.op = "iiter=" /\ ret'.dt > 0) =>
          LET s      == StateOf(ret'.via)
              sample == Rat(ret'.value - _iiter[s], ret'.dt)
              slot   == _iter_buffer.pos + 1
          IN  /\ ret'.raised = "none"
              /\ ret'.dt = now - _last_update[s]
              /\ Len(_iter_buffer'.data) = 20
              /\ _iter_buffer'.data[slot] = sample
              /\ \A i \in 1..20 :
                    i # slot => _iter_buffer'.data[i] = _iter_buffer.data[i]
              /\ _iter_buffer'.pos = (_iter_buffer.pos + 1) % 20
              /\ RatMul(iter_per_second'[s], ToRat(20)) = SeqSum(_iter_buffer'.data)
              /\ _iiter'[s] = ret'.value
              /\ _last_update'[s] = now'
      ]_vars

\* a second assignment, after a first one stored a non-zero count, with
\* dt > 0 and a non-zero sample
C4_Witness ==
    /\ ret.op = "iiter="
    /\ ret.raised = "none"
    /\ ret.dt > 0
    /\ nsets >= 2
    /\ ret.result # Zero
    /\ ret.result # Rat(ret.value, ret.dt)
    /\ iter_per_second[StateOf(ret.via)] # Zero

----------------------------------------------------------------------------
(* C5.  runtime_remaining is the zero duration whenever iter_per_second is *)
(* 0 and otherwise (niter - iiter) / iter_per_second seconds; reading it   *)
(* raises no ZeroDivisionError and changes nothing of the state.           *)

C5_RuntimeRemaining ==
    [][ret'.op = "runtime_remaining" =>
          LET s == ret'.via
          IN  /\ ret'.raised = "none"
              /\ iter_per_second[s] = Zero => ret'.result = Zero
              /\ iter_per_second[s] # Zero =>
                    RatMul(ret'.result, iter_per_second[s])
                        = ToRat(niter[s] - _iiter[s])
              /\ UNCHANGED <<now, alive, constructed_at, starttime, _iter_buffer,
                             _iiter, iter_per_second, _last_update, niter, nsets>>
      ]_vars

\* read at a zero rate while iterations remain: the case the test guards
C5_Witness ==
    /\ ret.op = "runtime_remaining"
    /\ iter_per_second[ret.via] = Zero
    /\ niter[ret.via] # _iiter[ret.via]
    /\ ret.result = Zero

\* read at a non-zero rate while iterations remain
C5_WitnessRate ==
    /\ ret.op = "runtime_remaining"
    /\ iter_per_second[ret.via] # Zero
    /\ ret.result # Zero

----------------------------------------------------------------------------
(* C6 (as claimed).  Over any sequence of assignments to iiter, the stored *)
(* iiter never decreases.                                                  *)

----------------------------------------------------------------------------
(* C7.  A SolverState constructed at time t has starttime t, starttime     *)
(* never changes afterwards, and runtime = now - (construction time).      *)

C7_StarttimeIsConstruction ==
    \A s \in alive :
        /\ StarttimeOf(s) = constructed_at[s]
        /\ runtime(s) = ToRat(now - constructed_at[s])

----------------------------------------------------------------------------
(* C8.  A go command on a non-empty run directory with neither --force nor *)
(* --preserve fails with ResumeConflictError and leaves the run directory  *)
(* (and the directories kept aside) unchanged, every time it is run.       *)

C8_ResumeConflict ==
    [][(ngo' = ngo + 1 /\ rundir # 0
            /\ ~cmd'.options.force /\ ~cmd'.options.preserve) =>
          /\ cmd'.raised = "ResumeConflictError"
          /\ rundir' = rundir
          /\ preserved' = preserved
      ]_vars

\* the command has failed twice in a row on the same run directory
C8_Witness ==
    /\ conflicts >= 2
    /\ rundir # 0
    /\ cmd.raised = "ResumeConflictError"

----------------------------------------------------------------------------
(* C9.  Whenever --parallel differs from 1 the go command starts the       *)
(* optimisation with status 'quiet' whatever --status says; when it is 1,  *)
(* the status passed on is the chosen --status value.                      *)

C9_ParallelIsQuiet ==
    cmd.op = "go" =>
        /\ cmd.options.nparallel # 1 => cmd.kwargs.status = "quiet"
        /\ cmd.options.nparallel = 1 => cmd.kwargs.status = cmd.options.status

\* --status=state was asked for and silenced, for a --parallel below 1
C9_Witness ==
    /\ cmd.op = "go"
    /\ cmd.options.nparallel < 1
    /\ cmd.options.status = "state"
    /\ cmd.kwargs.status = "quiet"

----------------------------------------------------------------------------
(* C10.  Every target get_targets returns has the string id                *)
(* '<path>.<scene_id>', path being the group's path if set and             *)
(* default_path otherwise, scene_id the id of a selected scene of the      *)
(* dataset; the targets of one call have pairwise distinct string ids.     *)

C10_StringIds ==
    (tcall.op = "get_targets" /\ tcall.raised = "none") =>
        LET prefix == IF tcall.path.is_none THEN tcall.default_path
                      ELSE tcall.path.val
        IN  /\ \A i \in 1..Len(targets) :
                  \E k \in 1..Len(tcall.ds) :
                      /\ tcall.ds[k] \in tcall.kite_scenes.items
                            \/ "*all" \in tcall.kite_scenes.items
                      /\ string_id(targets[i]) = prefix \o "." \o tcall.ds[k]
            /\ \A i, j \in 1..Len(targets) :
                  i # j => string_id(targets[i]) # string_id(targets[j])

\* two targets were returned for a group with a path of its own
C10_Witness ==
    /\ tcall.op = "get_targets"
    /\ tcall.raised = "none"
    /\ Len(targets) >= 2
    /\ ~tcall.path.is_none
    /\ tcall.path.val # tcall.default_path

\* two targets were returned for a group without a path
C10_WitnessDefault ==
    /\ tcall.op = "get_targets"
    /\ Len(targets) >= 2
    /\ tcall.path.is_none
    /\ string_id(targets[1]) = tcall.default_path \o "." \o targets[1].scene_id

----------------------------------------------------------------------------
(* C11.  When two target groups produce targets that resolve to the same   *)
(* (path, scene id), that is, both get_targets calls return, the groups'   *)
(* paths (each its own path if set, its default path otherwise) are equal  *)
(* and one scene of the dataset is selected by both, the build raises      *)
(* ConfigurationError and keeps no target: the duplicate is neither kept   *)
(* nor deduplicated.                                                       *)

Prefix(g) == IF g.path.is_none THEN g.default_path ELSE g.path.val

Takes(g, scene_id) ==
    scene_id \in g.kite_scenes.items \/ "*all" \in g.kite_scenes.items

Collide(gs, ds) ==
    \E i, j \in 1..Len(gs) :
        /\ i # j
        /\ Prefix(gs[i]) = Prefix(gs[j])
        /\ \E k \in 1..Len(ds) : Takes(gs[i], ds[k]) /\ Takes(gs[j], ds[k])

C11_DuplicateIsError ==
    (/\ build.op = "build"
     /\ build.raised \notin {"TypeError", "AttributeError"}
     /\ Collide(groups, build.ds))
        => (build.raised = "ConfigurationError" /\ build.targets = <<>>)

\* a group without a path and a group with a path that equals the other's
\* default path: the build ended in ConfigurationError
C11_Witness ==
    /\ build.op = "build"
    /\ build.raised = "ConfigurationError"
    /\ Collide(groups, build.ds)
    /\ groups[1].path.is_none
    /\ ~groups[2].path.is_none

\* a build without a collision returns the targets of both groups
C11_WitnessBuilt ==
    /\ build.op = "build"
    /\ build.raised = "none"
    /\ ~Collide(groups, build.ds)
    /\ Len(build.targets) >= 2

----------------------------------------------------------------------------
(* C12.  Every read of target_ranges returns, without raising, the mapping *)
(* with exactly one entry '<target id>:<name>' for each name of            *)
(* misfit_config.ranges, carrying that name's range, and no other entry:   *)
(* the first read builds it and every later read returns the same.         *)

Namespaced(id, d) ==
    [x \in {prefixed(id, k) : k \in DOMAIN d} |->
        d[CHOOSE k \in DOMAIN d : prefixed(id, k) = x]]

C12_RangesNamespaced ==
    rread.op = "target_ranges" =>
        /\ rread.raised = "none"
        /\ rread.value = Namespaced(target_id, ranges)

\* the reads leave misfit_config.ranges alone
C12_ConfigUnchanged == [][ranges' = ranges]_vars

\* a first read under Python 2 returned the namespaced mapping of three
\* ranges
C12_Witness ==
    /\ rread.op = "target_ranges"
    /\ rread.first
    /\ rread.raised = "none"
    /\ DOMAIN ranges = RangeNames
    /\ rread.value = Namespaced(target_id, ranges)

----------------------------------------------------------------------------
(* C13.  post_process is a pure function of its inputs: a call leaves the  *)
(* caller's statics and the target's state unchanged, and a call that      *)
(* follows another with the same statics object and parameter values       *)
(* returns the same misfit and normalisation.                              *)

C13_Pure ==
    [][pret'.op = "post_process" =>
          /\ statics' = statics
          /\ UNCHANGED <<scene, optimize_orbital_ramp, parameter_values,
                         _result_mode>>
          /\ pret.op = "post_process" =>
                 pret'.result.misfits = pret.result.misfits]_vars

----------------------------------------------------------------------------
(* C14.  The result of post_process holds one [misfit, normalization] row  *)
(* for each leaf of the scene's quadtree.                                  *)

C14_RowPerLeaf ==
    (pret.op = "post_process" /\ pret.raised = "none") =>
        Len(pret.result.misfits) = Len(scene)

----------------------------------------------------------------------------
(* C15.  The misfit and the normalisation post_process returns are L2      *)
(* combinations over the leaves: the misfit squared is the sum over the    *)
(* leaves of (weight * (observed - synthetic)) squared, the normalisation  *)
(* squared the sum of (weight * observed) squared, synthetic being the     *)
(* displacement the call ends with.                                        *)

SumOver(n, f(_)) == Sum([i \in 1..n |-> f(i)])

C15_L2 ==
    (pret.op = "post_process" /\ pret.raised = "none") =>
        LET Res(i) == (scene[i].weight * (scene[i].median - statics[i]))
                      * (scene[i].weight * (scene[i].median - statics[i]))
            Obs(i) == (scene[i].weight * scene[i].median)
                      * (scene[i].weight * scene[i].median)
            row == pret.result.misfits[1]
        IN  /\ row[1].squared = SumOver(Len(scene), Res)
            /\ row[2].squared = SumOver(Len(scene), Obs)

\* the example: leaves with rows (3, 4) and (0, 0) give misfit 3, norm 4
C15_Witness ==
    /\ pret.op = "post_process"
    /\ pret.raised = "none"
    /\ Len(scene) = 2
    /\ scene[1].weight * (scene[1].median - statics[1]) = 3
    /\ scene[1].weight * scene[1].median = 4
    /\ scene[2].weight * (scene[2].median - statics[2]) = 0
    /\ scene[2].weight * scene[2].median = 0
    /\ pret.result.misfits = <<(<<Root(3 * 3), Root(4 * 4)>>)>>

\* two leaves with rows (3, 4) each, the ramp included: the misfit squared
\* is 18, not 36
C15_WitnessTwoLeaves ==
    /\ pret.op = "post_process"
    /\ pret.raised = "none"
    /\ optimize_orbital_ramp
    /\ Len(scene) = 2
    /\ \A i \in 1..2 : scene[i].weight * (scene[i].median - statics[i]) = 3
    /\ pret.result.misfits[1][1] = Root(18)

----------------------------------------------------------------------------
(* C16.  With no balancing weight applied, get_combined_weight() of a      *)
(* target of either class returns the target's manual_weight alone, for    *)
(* every value of manual_weight.                                           *)

C16_ManualWeightAlone ==
    (wret.op = "get_combined_weight" /\ wret.arg = "omitted") =>
        (wret.raised = "none" /\ wret.value = <<manual_weight>>)

----------------------------------------------------------------------------
(* C17.  A harvest at weed level 3 takes the best nbest samples of the     *)
(* global chain only: the ensemble holds exactly nbest samples and none of *)
(* a bootstrap chain.  At weed level 0 the ensemble is the union of the    *)
(* best nbest samples of every chain, global and bootstrap.                *)

Harvested == hv.op = "harvest" /\ hv.raised = "none"

BestOf(c) == {<<c, r>> : r \in 1..hv.options.neach}

C17_GlobalOnlyOrAll ==
    Harvested =>
        /\ hv.options.weed = 3 =>
              /\ hv.ensemble = BestOf(1)
              /\ Cardinality(hv.ensemble) = hv.options.neach
              /\ \A s \in hv.ensemble : s[1] = 1
        /\ hv.options.weed = 0 =>
              hv.ensemble = UNION {BestOf(c) : c \in 1..Len(chains)}

\* level 3 on a run with two bootstrap chains, two samples taken
C17_Witness ==
    /\ Harvested
    /\ hv.options.weed = 3
    /\ Len(chains) = 3
    /\ Cardinality(hv.ensemble) = 2

\* level 0 on a run with two bootstrap chains: six samples
C17_WitnessAll ==
    /\ Harvested
    /\ hv.options.weed = 0
    /\ Len(chains) = 3
    /\ Cardinality(hv.ensemble) = 6

----------------------------------------------------------------------------
(* C18.  A harvest at weed level 1 discards a bootstrap chain exactly when *)
(* the mean global misfit of its best nbest samples exceeds the mean plus  *)
(* one standard deviation of the global misfit of the best nbest samples   *)
(* of all chains.  The ensemble is the union of the best nbest samples of  *)
(* the other chains; the samples of a discarded chain are absent from it   *)
(* and present in the level 0 ensemble.                                    *)

RatLess(a, b) == a.num * b.den < b.num * a.den

RatSub(a, b) == RatAdd(a, Rat(0 - b.num, b.den))

\* the global misfits of the best nbest samples of chain c
GmsOf(c) == [r \in 1..hv.options.neach |-> ToRat(chains[c][r])]

\* those of all chains
PopGms == Concat([c \in 1..Len(chains) |-> GmsOf(c)])

MeanOf(xs) == RatDiv(SeqSum(xs), ToRat(Len(xs)))

\* the variance: the mean squared distance from the mean
VarOf(xs) ==
    MeanOf([i \in 1..Len(xs) |->
               RatMul(RatSub(xs[i], MeanOf(xs)), RatSub(xs[i], MeanOf(xs)))])

\* x > mean + standard deviation of the population
AboveMeanPlusStd(x) ==
    LET d == RatSub(x, MeanOf(PopGms))
    IN  RatLess(Zero, d) /\ RatLess(VarOf(PopGms), RatMul(d, d))

Discarded(c) == c > 1 /\ AboveMeanPlusStd(MeanOf(GmsOf(c)))

Level0 ==
    grond_harvest(chains, [force |-> TRUE, nbest |-> hv.options.neach,
                           weed |-> 0], NoDir).ensemble

C18_WitnessMean ==
    /\ Harvested
    /\ hv.options.weed = 1
    /\ hv.options.neach = 2
    /\ \E d \in 2..Len(chains) :
          /\ ~Discarded(d)
          /\ \E r \in 1..2 : AboveMeanPlusStd(ToRat(chains[d][r]))
          /\ BestOf(d) \subseteq hv.ensemble

----------------------------------------------------------------------------
(* C19.  A harvest at weed level 2 applies the chain filter of level 1 and *)
(* then drops every sample of a surviving chain whose global misfit        *)
(* exceeds the mean of the population: its ensemble is a subset of the     *)
(* level 1 ensemble for the same chains and nbest.                         *)

Level1 ==
    grond_harvest(chains, [force |-> TRUE, nbest |-> hv.options.neach,
                           weed |-> 1], NoDir).ensemble

AboveMean(s) == RatLess(MeanOf(PopGms), ToRat(chains[s[1]][s[2]]))

C19_SampleFilter ==
    (Harvested /\ hv.options.weed = 2) =>
        /\ hv.ensemble =
              {s \in UNION {BestOf(c) :
                               c \in {x \in 1..Len(chains) : ~Discarded(x)}} :
                  ~AboveMean(s)}
        /\ hv.ensemble \subseteq Level1

\* level 2: a sample of a surviving bootstrap chain is dropped while
\* another sample of that chain is kept
C19_Witness ==
    /\ Harvested
    /\ hv.options.weed = 2
    /\ \E d \in 2..Len(chains) :
          /\ ~Discarded(d)
          /\ \E s \in BestOf(d) : s \in Level1 /\ s \notin hv.ensemble
          /\ \E s \in BestOf(d) : s \in hv.ensemble

\* level 2: a bootstrap chain is discarded as at level 1
C19_WitnessChain ==
    /\ Harvested
    /\ hv.options.weed = 2
    /\ \E c \in 2..Len(chains) :
          Discarded(c) /\ BestOf(c) \cap hv.ensemble = {}
    /\ hv.ensemble # {}

----------------------------------------------------------------------------
(* C20.  The forward command run with a single argument, a run directory   *)
(* and no event names, as its usage 'forward <rundir> [options]' states,   *)
(* does not die: it runs the forward modelling on that run directory.      *)

C20_RundirAlone ==
    (fwd.op = "forward" /\ Len(fwd.args) = 1) =>
        /\ fwd.died = ""
        /\ fwd.call.made
        /\ fwd.call.run_path = fwd.args[1]

\* the other form, a configuration file and event names, calls
\* grond.forward
C20_WitnessEventNames ==
    /\ fwd.op = "forward"
    /\ Len(fwd.args) = 3
    /\ fwd.call.made
    /\ fwd.call.run_path = "config.yml"
    /\ fwd.call.event_names = <<"ev1", "ev2">>

----------------------------------------------------------------------------
(* C21.  While create_group_mpl runs, and after it was interrupted at any  *)
(* step, every group reference listed in the persisted                     *)
(* plot_collection.yaml has its '<name>.<variant>.plot_group.yaml' file on *)
(* disk.                                                                    *)
C21_ListedGroupsHaveFiles ==
    \A i \in DOMAIN manifest.group_refs :
        path_group(manifest.group_refs[i][1], manifest.group_refs[i][2])
            \in DOMAIN pfiles

----------------------------------------------------------------------------
(* C22.  When two managers opened on the same directory have each          *)
(* completed one create_group_mpl, for different groups, and both are back *)
(* at rest, the persisted plot_collection.yaml lists both groups.          *)
Listed(ref) == \E i \in DOMAIN manifest.group_refs : manifest.group_refs[i] = ref

C22_BothGroupsListed ==
    \A g1 \in GroupRefs, g2 \in GroupRefs :
        (/\ g1 # g2
         /\ ppc = [m \in Managers |-> "idle"]
         /\ ncreate = 2
         /\ pcreated["m1"] = {g1}
         /\ pcreated["m2"] = {g2})
        => (Listed(g1) /\ Listed(g2))

----------------------------------------------------------------------------
(* C23.  On one manager, whenever no call is running: group_refs holds     *)
(* each group reference created so far exactly once and no other, the      *)
(* persisted manifest equals the list in memory, and every image file on   *)
(* disk written for a group was written by the last completed creation of  *)
(* that group, none by an earlier version of it.                           *)
Occurrences(list, x) == Cardinality({i \in DOMAIN list : list[i] = x})

C23_OnceAndClean ==
    (ppc["m1"] = "idle" /\ ncreate > 0) =>
        /\ \A r \in GroupRefs :
               Occurrences(_collection["m1"].group_refs, r)
                   = IF plast[r] > 0 THEN 1 ELSE 0
        /\ manifest = [exists |-> TRUE,
                       group_refs |-> _collection["m1"].group_refs]
        /\ \A p \in DOMAIN pfiles :
               pfiles[p].kind = "image" =>
                   pfiles[p].by.id
                       = plast[<<pfiles[p].by.name, pfiles[p].by.variant>>]

\* the group d.e was created with four images and created again with one:
\* the image of item i2 in pdf was unlinked and is gone
C23_Witness ==
    /\ ppc["m1"] = "idle"
    /\ plast[<<"d", "e">>] = 2
    /\ "plots/d.e.i2.pdf" \in punlinked
    /\ "plots/d.e.i2.pdf" \notin DOMAIN pfiles
    /\ "plots/d.e.i1.png" \in DOMAIN pfiles
    /\ _collection["m1"].group_refs = << <<"d", "e">> >>

----------------------------------------------------------------------------
(* C24.  For every subcommand c of subcommand_descriptions, 'grond c'      *)
(* calls the handler of c and 'grond help c' calls it with '--help'; any   *)
(* other first argument that is not a help flag ends with 'no such         *)
(* subcommand', and a command line without arguments ends with the usage   *)
(* text.                                                                    *)
handler_of(c) == "command_" \o joined(c.parts, "_")

C24_EveryNameDispatches ==
    mrun.op = "main" =>
        LET argv == mrun.argv
        IN  /\ Len(argv) < 2 => mrun.exit = "Usage"
            /\ \A c \in subcommands :
                   /\ (Len(argv) >= 2 /\ argv[2] = c)
                          => mrun.called = handler_of(c)
                   /\ (Len(argv) >= 3 /\ text(argv[2]) = "help"
                           /\ argv[3] = c)
                          => (/\ mrun.called = handler_of(c)
                              /\ mrun.args = <<"--help">>)
            /\ (/\ Len(argv) >= 2
                /\ argv[2] \notin subcommands
                /\ text(argv[2]) \notin {"--help", "-h", "help"})
                   => mrun.exit = "grond failed: no such subcommand: "
                                      \o text(argv[2])

----------------------------------------------------------------------------
(* C25.  When qc-polarization gets as far as choosing the group: if the    *)
(* configuration has a target group with the requested path, at any        *)
(* position, the polarization check runs for a group with that path; the   *)
(* command ends with 'no target group with path ... found' only when no    *)
(* group has that path, and the 'Available' list then names the path of    *)
(* every group.                                                             *)
HasGroup(in) ==
    \E i \in DOMAIN in.target_groups :
        in.target_groups[i] = in.target_group_path

C25_RunsForRequestedGroup ==
    (/\ qc.op = "qc-polarization"
     /\ qc_in.nargs = 3 /\ qc_in.config_ok /\ qc_in.picks # "missing")
    => /\ HasGroup(qc_in) =>
              /\ qc.ran \in DOMAIN qc_in.target_groups
              /\ qc_in.target_groups[qc.ran] = qc_in.target_group_path
       /\ qc.died = "no target group with path found" =>
              /\ ~HasGroup(qc_in)
              /\ qc.available = qc_in.target_groups

----------------------------------------------------------------------------
(* C26.  Whenever nparameters is read it equals the number of entries      *)
(* target_parameters has for that target, read before or not; reading     *)
(* never changes the class-level parameter list; every parameter returned  *)
(* by target_parameters has the target's string id as its only group.      *)
C26_NparametersIsCount ==
    /\ pread.op = "nparameters" =>
           pread.n = Len(target_parameters(ptarget[pread.target],
                                           _target_parameters[pread.target],
                                           available_parameters))
    /\ available_parameters = AvailableParameters
    /\ pread.op = "target_parameters" =>
           \A i \in DOMAIN pread.list :
               pread.list[i].groups = <<string_id(ptarget[pread.target])>>

====
